---- MODULE Spec2Model ----
(***************************************************************************)
(* Model of github.com/dmitrymomot/httpserver: construction of a Server   *)
(* (New and the serverOption setters) and its lifecycle (Start, Stop,     *)
(* Close) over the net/http server it wraps.                              *)
(*                                                                         *)
(* Durations are whole seconds.  The current server.go is the file kept   *)
(* as src/unnamed/part_004 (it is the one server_options.go, the errors   *)
(* file part_003 and server_test.go compile against).                     *)
(***************************************************************************)
EXTENDS Integers, Sequences, FiniteSets, TLC

Nil == "nil"

(***************************************************************************)
(* Bounds of the model.                                                    *)
(***************************************************************************)
MaxOpts == 3
MaxConns == 1
MaxGrace == 2

(***************************************************************************)
(* Construction: New and the options.                                      *)
(***************************************************************************)
VARIABLES
    heap,       \* the http.Server objects that exist: pointer -> fields
    newArgs,    \* the arguments of the New call: addr, handler, opt
    newRes,     \* what New returned: the *Server (a sequence of 0 or 1) and the error
    applied     \* how many options have been run by New

consVars == <<heap, newArgs, newRes, applied>>

\* Defaults written in New.
DefaultReadTimeout == 5
DefaultWriteTimeout == 10
DefaultIdleTimeout == 15
DefaultMaxHeaderBytes == 1048576
DefaultShutdownTimeout == 5

\* Values an option argument is drawn from (none of them a default).
OptVals == {0, 3}

ServerFields ==
    {"Addr", "Handler", "ReadTimeout", "ReadHeaderTimeout", "WriteTimeout",
     "IdleTimeout", "MaxHeaderBytes", "TLSConfig", "TLSNextProto", "ErrorLog"}

\* The zero value of http.Server.
ZeroHTTPServer ==
    [Addr |-> "", Handler |-> Nil, ReadTimeout |-> 0, ReadHeaderTimeout |-> 0,
     WriteTimeout |-> 0, IdleTimeout |-> 0, MaxHeaderBytes |-> 0,
     TLSConfig |-> Nil, TLSNextProto |-> Nil, ErrorLog |-> Nil]

\* Pre-built servers a caller may hand to WithPreconfiguredServer.
PrebuiltPtrs == {"p1", "p2"}

PrebuiltHeap ==
    [p \in PrebuiltPtrs |->
        IF p = "p1" THEN ZeroHTTPServer
        ELSE [ZeroHTTPServer EXCEPT !.Addr = ":9090", !.Handler = "h2",
                                    !.ReadTimeout = 7, !.WriteTimeout = 8,
                                    !.IdleTimeout = 9, !.MaxHeaderBytes = 4096]]

OwnPtr == "own"

\* The field of http.Server each setter writes.
SetterField ==
    [WithReadTimeout |-> "ReadTimeout",
     WithReadHeaderTimeout |-> "ReadHeaderTimeout",
     WithWriteTimeout |-> "WriteTimeout",
     WithIdleTimeout |-> "IdleTimeout",
     WithMaxHeaderBytes |-> "MaxHeaderBytes",
     WithTLSConfig |-> "TLSConfig",
     WithTLSNextProto |-> "TLSNextProto",
     WithErrorLog |-> "ErrorLog"]

SetterKinds == DOMAIN SetterField

Options ==
    [kind : {"WithPreconfiguredServer"}, v : PrebuiltPtrs]
    \cup [kind : {"WithReadTimeout", "WithReadHeaderTimeout", "WithWriteTimeout",
                  "WithIdleTimeout", "WithMaxHeaderBytes", "WithGracefulShutdown"},
          v : OptVals]
    \cup [kind : {"WithTLSConfig"}, v : {"tls1"}]
    \cup [kind : {"WithTLSNextProto"}, v : {"proto1"}]
    \cup [kind : {"WithErrorLog"}, v : {"elog1"}]
    \cup [kind : {"WithLogger"}, v : {"logger1"}]

OptSeqs == UNION {[1..n -> Options] : n \in 0..MaxOpts}

\* One option run on the Server s (st.s) and the heap of http.Server objects.
WithPreconfiguredServer(p, st) == [st EXCEPT !.s.httpServer = p]

WithField(f, v, st) == [st EXCEPT !.heap[st.s.httpServer][f] = v]

WithGracefulShutdown(d, st) == [st EXCEPT !.s.shutdownTimeout = d]

WithLogger(l, st) == [st EXCEPT !.s.log = l]

ApplyOption(o, st) ==
    CASE o.kind = "WithPreconfiguredServer" -> WithPreconfiguredServer(o.v, st)
      [] o.kind = "WithGracefulShutdown"     -> WithGracefulShutdown(o.v, st)
      [] o.kind = "WithLogger"               -> WithLogger(o.v, st)
      [] OTHER                               -> WithField(SetterField[o.kind], o.v, st)

\* for _, o := range opt { o(s) }
RECURSIVE ApplyOptions(_, _, _)
ApplyOptions(opt, i, st) ==
    IF i > Len(opt) THEN st
    ELSE ApplyOptions(opt, i + 1, ApplyOption(opt[i], st))

\* The Server New starts from, and the http.Server it allocates.
NewServer(addr, handler) ==
    [httpServer |-> OwnPtr, shutdownTimeout |-> DefaultShutdownTimeout,
     log |-> "slog.Default"]

NewHTTPServer(addr, handler) ==
    [ZeroHTTPServer EXCEPT !.Addr = addr, !.Handler = handler,
                           !.ReadTimeout = DefaultReadTimeout,
                           !.WriteTimeout = DefaultWriteTimeout,
                           !.IdleTimeout = DefaultIdleTimeout,
                           !.MaxHeaderBytes = DefaultMaxHeaderBytes]

\* A New that checks its arguments only after it has run the options.
NewValidatesLast(addr, handler, opt, h) ==
    LET st == ApplyOptions(opt, 1,
                  [s |-> NewServer(addr, handler),
                   heap |-> [p \in DOMAIN h \cup {OwnPtr} |->
                                IF p = OwnPtr THEN NewHTTPServer(addr, handler) ELSE h[p]]])
    IN  IF addr = "" THEN [s |-> <<>>, err |-> "ErrEmptyAddress", heap |-> st.heap, applied |-> Len(opt)]
        ELSE IF handler = Nil THEN [s |-> <<>>, err |-> "ErrNilHandler", heap |-> st.heap, applied |-> Len(opt)]
        ELSE [s |-> <<st.s>>, err |-> Nil, heap |-> st.heap, applied |-> Len(opt)]

\* A New that runs the options right to left.
RECURSIVE ApplyOptionsReversed(_, _, _)
ApplyOptionsReversed(opt, i, st) ==
    IF i < 1 THEN st
    ELSE ApplyOptionsReversed(opt, i - 1, ApplyOption(opt[i], st))

NewReversed(addr, handler, opt, h) ==
    IF addr = "" THEN [s |-> <<>>, err |-> "ErrEmptyAddress", heap |-> h, applied |-> 0]
    ELSE IF handler = Nil THEN [s |-> <<>>, err |-> "ErrNilHandler", heap |-> h, applied |-> 0]
    ELSE LET st == ApplyOptionsReversed(opt, Len(opt),
                      [s |-> NewServer(addr, handler),
                       heap |-> [p \in DOMAIN h \cup {OwnPtr} |->
                                    IF p = OwnPtr THEN NewHTTPServer(addr, handler) ELSE h[p]]])
         IN  [s |-> <<st.s>>, err |-> Nil, heap |-> st.heap, applied |-> Len(opt)]

\* New(addr, handler, opt...) on the heap h: the *Server, the error, the heap after.
New(addr, handler, opt, h) ==
    IF addr = "" THEN [s |-> <<>>, err |-> "ErrEmptyAddress", heap |-> h, applied |-> 0]
    ELSE IF handler = Nil THEN [s |-> <<>>, err |-> "ErrNilHandler", heap |-> h, applied |-> 0]
    ELSE LET st == ApplyOptions(opt, 1,
                      [s |-> NewServer(addr, handler),
                       heap |-> [p \in DOMAIN h \cup {OwnPtr} |->
                                    IF p = OwnPtr THEN NewHTTPServer(addr, handler) ELSE h[p]]])
         IN  [s |-> <<st.s>>, err |-> Nil, heap |-> st.heap, applied |-> Len(opt)]

NoResult == [ret |-> FALSE, s |-> <<>>, err |-> Nil]

ConsInit ==
    /\ heap = PrebuiltHeap
    /\ newArgs \in [addr : {"", ":8080"}, handler : {Nil, "h1"}, opt : OptSeqs]
    /\ newRes = NoResult
    /\ applied = 0

NewCall ==
    /\ ~newRes.ret
    /\ LET r == New(newArgs.addr, newArgs.handler, newArgs.opt, heap)
       IN  /\ heap' = r.heap
           /\ newRes' = [ret |-> TRUE, s |-> r.s, err |-> r.err]
           /\ applied' = r.applied
    /\ UNCHANGED newArgs


(***************************************************************************)
(* Lifecycle: Start, Stop and Close over net/http's Server.                *)
(*                                                                         *)
(* An error is the set of errors it matches under errors.Is; the empty set *)
(* is the nil error.  Every instance listens on the same address.          *)
(***************************************************************************)
VARIABLES
    shutdownTimeout, \* Server.shutdownTimeout of each instance
    inShutdown,      \* http.Server.inShutdown of each instance
    listeners,       \* http.Server.listeners: the listeners Serve has tracked
    served,          \* whether Serve has ever tracked a listener of the instance
    ln,              \* the listening socket each Start call opened
    active,          \* requests in flight on each instance
    call,            \* the Start calls: position of Start and of its two goroutines
    ctxDone,         \* whether the context handed to each Start call is cancelled
    sigSub,          \* Start calls whose signal.Notify channel is registered
    sigPend,         \* Start calls whose signal channel holds a signal
    stop,            \* the Stop calls: one per Start call (its watcher's) and the caller's own
    uctxDone,        \* whether the context of the caller's own Stop is cancelled
    closed,          \* Close calls made on an instance no Start was ever called on
    flaky            \* whether closing a listener can fail on this platform

\* The static content handler and the store, client and clock around it.
VARIABLES
    publicPath,  \* the prefix the handler strips, as serveStaticHandlerFunc keeps it
    cacheTTL,    \* the cache TTL the handler was built with, in ticks
    file,        \* the regular file of the store: its modification time and size
    now,         \* the wall clock, in ticks
    req,         \* the request being answered
    resp,        \* the response the handler produced for it
    cache        \* the validators the client kept from an earlier 200 response

staticVars == <<publicPath, cacheTTL, file, now, req, resp, cache>>

lifeVars == <<shutdownTimeout, inShutdown, listeners, served, ln, active, call,
              ctxDone, sigSub, sigPend, stop, uctxDone, closed, flaky>>

vars == <<heap, newArgs, newRes, applied, shutdownTimeout, inShutdown, listeners,
          served, ln, active, call, ctxDone, sigSub, sigPend, stop, uctxDone, closed,
          flaky, publicPath, cacheTTL, file, now, req, resp, cache>>

Calls == {"c1", "c2"}
Insts == {"s1", "s2"}
UserStop == "u"
StopIds == Calls \cup {UserStop}

\* Grace periods the instances are configured with, timeouts the caller's Stop is given.
GraceVals == {0, MaxGrace}
UserTimeouts == {0, 1}

NoErr == {}
Is(err, target) == target \in err
Join(e1, e2) == e1 \cup e2

IdleCall ==
    [pc |-> "idle", inst |-> "s1", acc |-> "idle", wat |-> "idle",
     gerr |-> NoErr, gctx |-> FALSE, trig |-> "none", lasErr |-> NoErr, res |-> NoErr]

IdleStop ==
    [pc |-> "idle", inst |-> "s1", timeout |-> 0, elapsed |-> 0, parent |-> "none",
     lnerr |-> NoErr, err |-> NoErr, res |-> NoErr, forced |-> FALSE,
     forceErr |-> NoErr, left |-> 0]

LifeInit ==
    /\ shutdownTimeout \in [Insts -> GraceVals]
    /\ inShutdown = [i \in Insts |-> FALSE]
    /\ listeners = [i \in Insts |-> {}]
    /\ served = [i \in Insts |-> FALSE]
    /\ ln = [c \in Calls |-> "none"]
    /\ active = [i \in Insts |-> 0]
    /\ call = [c \in Calls |-> IdleCall]
    /\ ctxDone = [c \in Calls |-> FALSE]
    /\ sigSub = {}
    /\ sigPend = {}
    /\ stop = [k \in StopIds |-> IdleStop]
    /\ uctxDone = FALSE
    /\ closed = [i \in Insts |-> [n |-> 0, errs |-> {}]]
    /\ flaky \in BOOLEAN

\* ctx of the errgroup of Start call c: done when the caller's context is, or
\* when a goroutine of the group has returned an error.
GroupCtxDone(c) == ctxDone[c] \/ call[c].gctx

\* Whether the context a Stop call was given is cancelled.  shutdownCtx is
\* cancelled by the deferred shutdownCancel only, when Start returns.
ParentDone(k) ==
    CASE stop[k].parent = "shutdownCtx" -> FALSE
      [] stop[k].parent = "ctx"         -> GroupCtxDone(k)
      [] OTHER                          -> uctxDone

StartInvokedOn(i) == \E c \in Calls : call[c].pc # "idle" /\ call[c].inst = i

\* A group that reports the result of the goroutine that returned last.
GroupReturnKeepsLast(cl, err) ==
    [cl EXCEPT !.gerr = err, !.gctx = cl.gctx \/ err # NoErr]

\* A goroutine of the errgroup of Start call c returns err: the group keeps
\* the first error and cancels its context on it.
GroupReturn(cl, err) ==
    [cl EXCEPT !.gerr = IF cl.gerr = NoErr THEN err ELSE cl.gerr,
               !.gctx = cl.gctx \/ err # NoErr]

\* A wait that also ends as soon as one goroutine of the group has failed.
GroupWaitFirstError(cl) ==
    (cl.acc = "done" /\ cl.wat = "done") \/ cl.gerr # NoErr

\* A wait that ends when the watcher has returned, with the accept goroutine
\* still running.
GroupWaitWatcherOnly(cl) == cl.wat = "done"

\* g.Wait() of Start returns once both goroutines of the group have returned.
GroupWaitDone(cl) == cl.acc = "done" /\ cl.wat = "done"

\* An accept goroutine that returns the error of ListenAndServe unwrapped.
ServeResultUnwrapped(err) ==
    IF err # NoErr /\ ~Is(err, "ErrServerClosed") THEN err ELSE NoErr

\* An accept goroutine that reports the close of its listener as a failure.
ServeResultClosedIsError(err) ==
    IF err # NoErr THEN Join({"ErrServerStart"}, err) ELSE NoErr

\* What the accept goroutine returns for the result of ListenAndServe.

ServeResult(err) ==
    IF err # NoErr /\ ~Is(err, "ErrServerClosed")
    THEN Join({"ErrServerStart"}, err) ELSE NoErr

\* What the goroutine of Stop returns for the result of Shutdown.

StopResult(err) ==
    IF err # NoErr /\ ~Is(err, "context.Canceled") /\ ~Is(err, "ErrServerClosed")
    THEN Join({"ErrServerStop"}, err) ELSE NoErr

\* A Stop that returns the error of its forced close when there is one.
StopReturnsCloseError(err, cerr) ==
    IF cerr # NoErr THEN cerr ELSE err

\* What Stop returns when its errgroup failed with err and Close returned cerr.

StopReturn(err, cerr) == err

\* What Start returns for the result of g.Wait().

StartResult(err) ==
    IF err # NoErr /\ ~Is(err, "context.Canceled") THEN err ELSE NoErr

\* A Close that wraps whatever http.Server.Close returned, nil included.
CloseResultWrapsNil(err) ==
    IF ~Is(err, "ErrServerClosed")
    THEN Join({"ErrServerForceClose"}, err) ELSE NoErr

\* What Server.Close returns for the result of http.Server.Close.
CloseResult(err) ==
    IF err # NoErr /\ ~Is(err, "ErrServerClosed")
    THEN Join({"ErrServerForceClose"}, err) ELSE NoErr

\* A watcher that returns ctx.Err() on ctx.Done() without stopping the server.
WatcherReturnsCtxErr(trig, timeout) ==
    IF trig = "ctx"
    THEN [invoke |-> "return", ctx |-> "none", timeout |-> 0]
    ELSE [invoke |-> "Stop", ctx |-> "shutdownCtx", timeout |-> timeout]

\* A watcher that hands the context of the errgroup to Stop.
WatcherPassesCallerCtx(trig, timeout) ==
    [invoke |-> "Stop", ctx |-> "ctx", timeout |-> timeout]

\* The branch the shutdown watcher takes on ctx.Done() or on a signal: the
\* call it makes, the context and the timeout it passes.
WatcherBranch(trig, timeout) ==
    [invoke |-> "Stop", ctx |-> "shutdownCtx", timeout |-> timeout]

----------------------------------------------------------------------------
\* Closing a listener: the result of its first Close is kept (Serve wraps the
\* listener so that it is closed once); the first Close may fail where the
\* platform lets it.
CloseOutcomes(c) ==
    IF ln[c] = "open"
    THEN (IF flaky THEN {"closed", "closedErr"} ELSE {"closed"})
    ELSE {ln[c]}

\* closeListenersLocked on instance i: every tracked listener is closed.
CloseListeners(i) ==
    \E f \in [listeners[i] -> {"closed", "closedErr"}] :
        /\ \A c \in listeners[i] : f[c] \in CloseOutcomes(c)
        /\ ln' = [c \in Calls |-> IF c \in listeners[i] THEN f[c] ELSE ln[c]]

\* The error closeListenersLocked returns, read in the state it leaves.
ListenersCloseError(i) ==
    IF \E c \in listeners[i] : ln'[c] = "closedErr" THEN {"close error"} ELSE NoErr

\* A Stop that goes on to the forced close whatever Shutdown returned.
ShutdownReturnedAlwaysForces(fr, err, inflight) ==
    [fr EXCEPT !.pc = "force", !.err = err, !.res = StopResult(err), !.left = inflight]

\* Shutdown has returned err: the goroutine of Stop maps it, and Stop either
\* returns nil or goes on to the forced close.
ShutdownReturned(fr, err, inflight) ==
    LET r == StopResult(err) IN
    IF r = NoErr
    THEN [fr EXCEPT !.pc = "done", !.err = err, !.res = NoErr, !.left = inflight]
    ELSE [fr EXCEPT !.pc = "force", !.err = err, !.res = r, !.left = inflight]

\* The Stop call k moves to fr; when it is the Stop of a watcher and has
\* returned, the watcher returns its result to the errgroup.
StopMoves(k, fr) ==
    /\ stop' = [stop EXCEPT ![k] = fr]
    /\ call' = IF k \in Calls /\ fr.pc = "done"
               THEN [call EXCEPT ![k] = [GroupReturn(@, fr.res) EXCEPT !.wat = "done"]]
               ELSE call

\* A Shutdown that marks the server but leaves its listeners open.
ShutdownBeginKeepsListeners(i) ==
    /\ inShutdown' = [inShutdown EXCEPT ![i] = TRUE]
    /\ UNCHANGED ln

\* Shutdown begins on instance i: the server is marked as shutting down and
\* its tracked listeners are closed.
ShutdownBegin(i) ==
    /\ inShutdown' = [inShutdown EXCEPT ![i] = TRUE]
    /\ CloseListeners(i)

\* Stop(ctx, timeout) on instance i up to the first poll of Shutdown: the
\* timeout starts, Shutdown keeps the error of closing the listeners, and with
\* no request in flight it returns that error at once.
StopFrame(i, timeout, parent) ==
    LET fr == [IdleStop EXCEPT !.pc = "wait", !.inst = i, !.timeout = timeout,
                               !.parent = parent, !.lnerr = ListenersCloseError(i)]
    IN  IF active[i] = 0
        THEN ShutdownReturned(fr, fr.lnerr, 0)
        ELSE fr

\* The caller invokes Start on an instance: Start spawns the accept goroutine
\* and the watcher, whose select registers a signal channel.
StartCall(c, i) ==
    /\ call[c].pc = "idle"
    /\ call' = [call EXCEPT ![c] = [@ EXCEPT !.pc = "running", !.inst = i,
                                             !.acc = "check", !.wat = "select"]]
    /\ sigSub' = sigSub \cup {c}
    /\ UNCHANGED <<shutdownTimeout, inShutdown, listeners, served, ln, active,
                   ctxDone, sigPend, stop, uctxDone, closed, flaky>>

\* The caller cancels the context of a Start call (before or during the call).
CancelCtx(c) ==
    /\ ~ctxDone[c]
    /\ call[c].wat \in {"idle", "select"}
    /\ ctxDone' = [ctxDone EXCEPT ![c] = TRUE]
    /\ UNCHANGED <<shutdownTimeout, inShutdown, listeners, served, ln, active,
                   call, sigSub, sigPend, stop, uctxDone, closed, flaky>>

\* An interrupt or terminate signal reaches the registered channels.
Signal ==
    /\ \E c \in sigSub : call[c].wat = "select" /\ c \notin sigPend
    /\ sigPend' = sigPend \cup {c \in sigSub : call[c].wat = "select"}
    /\ UNCHANGED <<shutdownTimeout, inShutdown, listeners, served, ln, active,
                   call, ctxDone, sigSub, stop, uctxDone, closed, flaky>>

\* ListenAndServe has returned err: with nil for the group the goroutine is
\* done, with an error it has still to hand the error to the group.
AcceptLoopEnds(cl, err) ==
    IF ServeResult(err) = NoErr
    THEN [cl EXCEPT !.acc = "done", !.lasErr = err]
    ELSE [cl EXCEPT !.acc = "fail", !.lasErr = err]

\* A ListenAndServe that goes on to bind without looking at the server.
ShuttingDownNotLookedAt(i) == FALSE

\* http.Server.shuttingDown, as ListenAndServe asks it before it binds.
ShuttingDown(i) == inShutdown[i]

\* ListenAndServe: a server that is shutting down returns ErrServerClosed.
LASCheck(c) ==
    /\ call[c].acc = "check"
    /\ IF ShuttingDown(call[c].inst)
       THEN call' = [call EXCEPT ![c] = AcceptLoopEnds(@, {"ErrServerClosed"})]
       ELSE call' = [call EXCEPT ![c].acc = "listen"]
    /\ UNCHANGED <<shutdownTimeout, inShutdown, listeners, served, ln, active,
                   ctxDone, sigSub, sigPend, stop, uctxDone, closed, flaky>>

\* net.Listen: binds the address unless an open listener holds it.
Listen(c) ==
    /\ call[c].acc = "listen"
    /\ IF \A d \in Calls : ln[d] # "open"
       THEN /\ ln' = [ln EXCEPT ![c] = "open"]
            /\ call' = [call EXCEPT ![c].acc = "track"]
       ELSE /\ call' = [call EXCEPT ![c] = AcceptLoopEnds(@, {"EADDRINUSE"})]
            /\ UNCHANGED ln
    /\ UNCHANGED <<shutdownTimeout, inShutdown, listeners, served, active,
                   ctxDone, sigSub, sigPend, stop, uctxDone, closed, flaky>>

\* Serve: trackListener refuses a listener once the server is shutting down,
\* and Serve then closes it and returns ErrServerClosed.
Track(c) ==
    /\ call[c].acc = "track"
    /\ LET i == call[c].inst IN
       IF inShutdown[i]
       THEN /\ ln' = [ln EXCEPT ![c] = "closed"]
            /\ call' = [call EXCEPT ![c] = AcceptLoopEnds(@, {"ErrServerClosed"})]
            /\ UNCHANGED <<listeners, served>>
       ELSE /\ listeners' = [listeners EXCEPT ![i] = @ \cup {c}]
            /\ served' = [served EXCEPT ![i] = TRUE]
            /\ call' = [call EXCEPT ![c].acc = "serving"]
            /\ UNCHANGED ln
    /\ UNCHANGED <<shutdownTimeout, inShutdown, active,
                   ctxDone, sigSub, sigPend, stop, uctxDone, closed, flaky>>

\* The accept loop accepts a connection and its request starts.
Accept(c) ==
    /\ call[c].acc = "serving"
    /\ ln[c] = "open"
    /\ active[call[c].inst] < MaxConns
    /\ active' = [active EXCEPT ![call[c].inst] = @ + 1]
    /\ UNCHANGED <<shutdownTimeout, inShutdown, listeners, served, ln, call,
                   ctxDone, sigSub, sigPend, stop, uctxDone, closed, flaky>>

\* Accept fails on a closed listener: Serve untracks it and returns ErrServerClosed.
ServeExit(c) ==
    /\ call[c].acc = "serving"
    /\ ln[c] # "open"
    /\ listeners' = [listeners EXCEPT ![call[c].inst] = @ \ {c}]
    /\ call' = [call EXCEPT ![c] = AcceptLoopEnds(@, {"ErrServerClosed"})]
    /\ UNCHANGED <<shutdownTimeout, inShutdown, served, ln, active,
                   ctxDone, sigSub, sigPend, stop, uctxDone, closed, flaky>>

\* Accept fails with a networking error while the listener is open: Serve
\* untracks and closes the listener and returns the error.
AcceptError(c) ==
    /\ call[c].acc = "serving"
    /\ ln[c] = "open"
    /\ listeners' = [listeners EXCEPT ![call[c].inst] = @ \ {c}]
    /\ ln' = [ln EXCEPT ![c] = "closed"]
    /\ call' = [call EXCEPT ![c] = AcceptLoopEnds(@, {"accept error"})]
    /\ UNCHANGED <<shutdownTimeout, inShutdown, served, active,
                   ctxDone, sigSub, sigPend, stop, uctxDone, closed, flaky>>

\* The accept goroutine returns its error to the errgroup.
AcceptReturn(c) ==
    /\ call[c].acc = "fail"
    /\ call' = [call EXCEPT ![c] =
                   [GroupReturn(@, ServeResult(call[c].lasErr)) EXCEPT !.acc = "done"]]
    /\ UNCHANGED <<shutdownTimeout, inShutdown, listeners, served, ln, active,
                   ctxDone, sigSub, sigPend, stop, uctxDone, closed, flaky>>

\* A request in flight finishes.
Finish(i) ==
    /\ active[i] > 0
    /\ active' = [active EXCEPT ![i] = @ - 1]
    /\ UNCHANGED <<shutdownTimeout, inShutdown, listeners, served, ln, call,
                   ctxDone, sigSub, sigPend, stop, uctxDone, closed, flaky>>

\* The select of the watcher fires on ctx.Done() or on a signal, and the
\* watcher takes its branch.
WatcherTrigger(c, trig) ==
    /\ call[c].wat = "select"
    /\ \/ trig = "ctx" /\ GroupCtxDone(c)
       \/ trig = "signal" /\ c \in sigPend
    /\ sigPend' = IF trig = "signal" THEN sigPend \ {c} ELSE sigPend
    /\ LET b == WatcherBranch(trig, shutdownTimeout[call[c].inst])
           i == call[c].inst
       IN  IF b.invoke = "Stop"
           THEN /\ ShutdownBegin(i)
                /\ LET fr2 == StopFrame(i, b.timeout, b.ctx)
                   IN  /\ stop' = [stop EXCEPT ![c] = fr2]
                       /\ call' = [call EXCEPT ![c] =
                                      IF fr2.pc = "done"
                                      THEN [GroupReturn(@, fr2.res) EXCEPT !.wat = "done", !.trig = trig]
                                      ELSE [@ EXCEPT !.wat = "stop", !.trig = trig]]
           ELSE /\ call' = [call EXCEPT ![c] =
                               [GroupReturn(@, {"context.Canceled"})
                                   EXCEPT !.wat = "done", !.trig = trig]]
                /\ UNCHANGED <<stop, inShutdown, ln>>
    /\ UNCHANGED <<shutdownTimeout, listeners, served, active,
                   ctxDone, sigSub, uctxDone, closed, flaky>>

\* g.Wait() returns once both goroutines have; Start returns.
StartReturn(c) ==
    /\ call[c].pc = "running"
    /\ GroupWaitDone(call[c])
    /\ call' = [call EXCEPT ![c].pc = "returned", ![c].res = StartResult(call[c].gerr)]
    /\ UNCHANGED <<shutdownTimeout, inShutdown, listeners, served, ln, active,
                   ctxDone, sigSub, sigPend, stop, uctxDone, closed, flaky>>

----------------------------------------------------------------------------
\* The caller invokes Stop(ctx, timeout) itself.
UserStopCall(i, t) ==
    /\ stop[UserStop].pc = "idle"
    /\ ShutdownBegin(i)
    /\ StopMoves(UserStop, StopFrame(i, t, "uctx"))
    /\ UNCHANGED <<shutdownTimeout, listeners, served, active,
                   ctxDone, sigSub, sigPend, uctxDone, closed, flaky>>

\* The caller cancels the context of its own Stop (before or during the call).
UserCancel ==
    /\ ~uctxDone
    /\ stop[UserStop].pc \in {"idle", "wait"}
    /\ uctxDone' = TRUE
    /\ UNCHANGED <<shutdownTimeout, inShutdown, listeners, served, ln, active,
                   call, ctxDone, sigSub, sigPend, stop, closed, flaky>>

\* Shutdown polls and finds no request in flight: it returns the error it got
\* from closing the listeners.  (A poll that finds requests in flight changes
\* nothing.)
StopDrained(k) ==
    /\ stop[k].pc = "wait"
    /\ active[stop[k].inst] = 0
    /\ StopMoves(k, ShutdownReturned(stop[k], stop[k].lnerr, 0))
    /\ UNCHANGED <<shutdownTimeout, inShutdown, listeners, served, ln, active,
                   ctxDone, sigSub, sigPend, uctxDone, closed, flaky>>

\* The context of Shutdown is done while Shutdown waits between two polls:
\* Shutdown returns ctx.Err(), which is context.Canceled when the parent was
\* cancelled and DeadlineExceeded when the timeout elapsed.
StopCtxDone(k, cause) ==
    /\ stop[k].pc = "wait"
    /\ \/ cause = "context.Canceled" /\ ParentDone(k)
       \/ cause = "context.DeadlineExceeded" /\ stop[k].elapsed >= stop[k].timeout
    /\ StopMoves(k, ShutdownReturned(stop[k], {cause}, active[stop[k].inst]))
    /\ UNCHANGED <<shutdownTimeout, inShutdown, listeners, served, ln, active,
                   ctxDone, sigSub, sigPend, uctxDone, closed, flaky>>

\* Close on instance i: the server is marked as shutting down, its tracked
\* listeners and all its connections are closed.
CloseEffect(i) ==
    /\ inShutdown' = [inShutdown EXCEPT ![i] = TRUE]
    /\ CloseListeners(i)
    /\ active' = [active EXCEPT ![i] = 0]

\* Stop failed: it calls Close, drops the result of Close and returns.
StopForce(k) ==
    /\ stop[k].pc = "force"
    /\ CloseEffect(stop[k].inst)
    /\ LET cerr == CloseResult(ListenersCloseError(stop[k].inst)) IN
       StopMoves(k, [stop[k] EXCEPT !.pc = "done", !.forced = TRUE, !.forceErr = cerr,
                                    !.res = StopReturn(stop[k].res, cerr)])
    /\ UNCHANGED <<shutdownTimeout, listeners, served,
                   ctxDone, sigSub, sigPend, uctxDone, closed, flaky>>

\* The caller invokes Close itself.  closed counts the calls on an instance
\* that Start was never called on before the first of them.
UserClose(i) ==
    /\ CloseEffect(i)
    /\ closed' = IF StartInvokedOn(i) /\ closed[i].n = 0 THEN closed
                 ELSE [closed EXCEPT ![i] =
                          [n |-> IF @.n < 2 THEN @.n + 1 ELSE 2,
                           errs |-> @.errs \cup {CloseResult(ListenersCloseError(i))}]]
    /\ \/ ~inShutdown[i]
       \/ active[i] > 0
       \/ closed' # closed
    /\ UNCHANGED <<shutdownTimeout, listeners, served, call,
                   ctxDone, sigSub, sigPend, stop, uctxDone, flaky>>

\* A second passes for every Stop call that is waiting.
Tick ==
    /\ \E k \in StopIds : stop[k].pc = "wait" /\ stop[k].elapsed < stop[k].timeout
    /\ stop' = [k \in StopIds |->
                   IF stop[k].pc = "wait" /\ stop[k].elapsed < stop[k].timeout
                   THEN [stop[k] EXCEPT !.elapsed = @ + 1] ELSE stop[k]]
    /\ UNCHANGED <<shutdownTimeout, inShutdown, listeners, served, ln, active,
                   call, ctxDone, sigSub, sigPend, uctxDone, closed, flaky>>

(***************************************************************************)
(* The static content handler (StaticHandler, serveStaticHandlerFunc and   *)
(* serveFile) over a file store, with net/http's ResponseWriter and        *)
(* ServeContent.                                                           *)
(*                                                                         *)
(* Times are counted in ticks of half a second, so that a modification     *)
(* time can fall between two whole seconds.  A string is the sequence of   *)
(* its characters; a header that is not set reads as the empty string, as  *)
(* Header.Get returns it.  An HTTP date is the format it is written in and *)
(* the whole second it names.                                              *)
(***************************************************************************)
Second == 2

\* Bounds of the store and the clock, in ticks.
MaxModTime == 3
MaxNow == 1

StatusOK == 200
StatusNotModified == 304
StatusNotFound == 404
StatusPreconditionFailed == 412
StatusInternalServerError == 500

ModTimes == 0..MaxModTime
Sizes == {0, 26}
TTLs == {0, 1, 600 * Second}
RawPrefixes == {<<"/", "s">>, <<"/", "s", "/", "/">>}
Methods == {"GET", "HEAD"}
URLs == {<<"/", "s", "/", "a">>, <<"/", "s", "/", "d">>, <<"/", "s", "/", "x">>}
DateSecs == -1..(MaxModTime \div Second)

\* strings.HasPrefix, strings.TrimPrefix, strings.TrimRight, strings.Contains.
HasPrefix(s, p) == Len(p) <= Len(s) /\ SubSeq(s, 1, Len(p)) = p

TrimPrefix(s, p) == IF HasPrefix(s, p) THEN SubSeq(s, Len(p) + 1, Len(s)) ELSE s

RECURSIVE TrimRight(_, _)
TrimRight(s, cutset) ==
    IF s # <<>> /\ s[Len(s)] \in cutset
    THEN TrimRight(SubSeq(s, 1, Len(s) - 1), cutset)
    ELSE s

Contains(s, substr) ==
    \E i \in 0..(Len(s) - Len(substr)) : SubSeq(s, i + 1, i + Len(substr)) = substr

\* fmt's %x and %d of a number that is not negative.
HexDigits == <<"0", "1", "2", "3", "4", "5", "6", "7", "8", "9", "a", "b", "c", "d", "e", "f">>

RECURSIVE Hex(_)
Hex(n) ==
    IF n < 16 THEN <<HexDigits[n + 1]>>
    ELSE Hex(n \div 16) \o <<HexDigits[(n % 16) + 1]>>

RECURSIVE Dec(_)
Dec(n) ==
    IF n < 10 THEN <<HexDigits[n + 1]>>
    ELSE Dec(n \div 10) \o <<HexDigits[(n % 10) + 1]>>

\* Time.Unix of a time at or after the epoch, and Duration.Seconds cut to an int.
Unix(t) == t \div Second

WholeSeconds(d) == d \div Second

\* Time.Format(http.TimeFormat) of a time in UTC: the date of its whole second.
NoDate == [fmt |-> "", sec |-> 0]

FormatHTTPTime(t) == [fmt |-> "TimeFormat", sec |-> t \div Second]

\* time.Parse(http.TimeFormat, v), and http.ParseTime, which also reads the
\* two obsolete formats.
ParseTimeFormat(v) ==
    IF v.fmt = "TimeFormat" THEN [ok |-> TRUE, t |-> v.sec * Second]
    ELSE [ok |-> FALSE, t |-> 0]

ParseTime(v) ==
    IF v.fmt \in {"TimeFormat", "RFC850", "ANSIC"} THEN [ok |-> TRUE, t |-> v.sec * Second]
    ELSE [ok |-> FALSE, t |-> 0]

\* The store: a regular file, a directory, and nothing else.
FilePath == <<"/", "a">>
DirPath == <<"/", "d">>

\* How Open, Stat and Close on a path of the store can end.
OpenOutcomes(fsPath) ==
    CASE fsPath = FilePath -> {"ok", "EACCES", "EIO"}
      [] fsPath = DirPath  -> {"ok", "EACCES"}
      [] OTHER             -> {"ENOENT"}

StatOutcomes(fsPath) == IF fsPath = FilePath THEN {"ok", "EIO"} ELSE {"ok"}

FileCloseOutcomes(fsPath) == {"ok", "EIO"}

\* os.FileInfo of an opened entry.
Info(fsPath, f) ==
    IF fsPath = DirPath THEN [isDir |-> TRUE, modTime |-> 0, size |-> 0]
    ELSE [isDir |-> FALSE, modTime |-> f.modTime, size |-> f.size]

----------------------------------------------------------------------------
\* net/http's response: the header map of the handler, and what goes to the
\* client (the status, the headers as they were at WriteHeader, the body).
NoHeaders ==
    [ETag |-> <<>>, LastModified |-> NoDate, CacheControl |-> <<>>, Expires |-> NoDate,
     Pragma |-> "", ContentType |-> "", ContentLength |-> -1, XContentTypeOptions |-> "",
     AcceptRanges |-> ""]

NewWriter(method) ==
    [method |-> method, hdr |-> NoHeaders, wroteHeader |-> FALSE, status |-> 0,
     sent |-> NoHeaders, written |-> 0, body |-> <<>>]

\* ResponseWriter.WriteHeader: only the first call counts.
WriteHeader(w, code) ==
    IF w.wroteHeader THEN w
    ELSE [w EXCEPT !.wroteHeader = TRUE, !.status = code, !.sent = w.hdr]

BodyAllowed(status) == status \notin {204, StatusNotModified}

\* ResponseWriter.Write of n bytes: refused on a status without body and past
\* the declared Content-Length, dropped for a HEAD request.
Write(w0, data, n) ==
    LET w == WriteHeader(w0, StatusOK) IN
    IF n = 0 \/ ~BodyAllowed(w.status) THEN w
    ELSE IF w.sent.ContentLength # -1 /\ w.written + n > w.sent.ContentLength
         THEN [w EXCEPT !.written = @ + n]
    ELSE IF w.method = "HEAD" THEN [w EXCEPT !.written = @ + n]
    ELSE [w EXCEPT !.written = @ + n, !.body = Append(@, data)]

\* http.Error and http.NotFound.
Error(w, error, code) ==
    LET w1 == [w EXCEPT !.hdr.ContentLength = -1,
                        !.hdr.ContentType = "text/plain; charset=utf-8",
                        !.hdr.XContentTypeOptions = "nosniff"]
    IN  Write(WriteHeader(w1, code), error, 1)

NotFound(w) == Error(w, "404 page not found", StatusNotFound)

\* http.ServeContent's scan of If-None-Match against the Etag header.
TrimSpace(s) ==
    LET I == {i \in 1..Len(s) : s[i] # " "}
    IN  IF I = {} THEN <<>>
        ELSE SubSeq(s, CHOOSE i \in I : \A j \in I : i <= j,
                       CHOOSE i \in I : \A j \in I : j <= i)

NoETag == [etag |-> <<>>, remain |-> <<>>]

ScanETag(s) ==
    LET start == IF HasPrefix(s, <<"W", "/">>) THEN 2 ELSE 0
        Q == {i \in (start + 2)..Len(s) : s[i] \in {"\"", " "}}
    IN  IF Len(s) - start < 2 \/ s[start + 1] # "\"" \/ Q = {} THEN NoETag
        ELSE LET i == CHOOSE q \in Q : \A j \in Q : q <= j
             IN  IF s[i] = "\""
                 THEN [etag |-> SubSeq(s, 1, i), remain |-> SubSeq(s, i + 1, Len(s))]
                 ELSE NoETag

EtagWeakMatch(a, b) == TrimPrefix(a, <<"W", "/">>) = TrimPrefix(b, <<"W", "/">>)

RECURSIVE ScanIfNoneMatch(_, _)
ScanIfNoneMatch(buf0, etag) ==
    LET buf == TrimSpace(buf0) IN
    IF buf = <<>> THEN "condTrue"
    ELSE IF buf[1] = "," THEN ScanIfNoneMatch(Tail(buf), etag)
    ELSE IF buf[1] = "*" THEN "condFalse"
    ELSE LET sc == ScanETag(buf)
         IN  IF sc.etag = <<>> THEN "condTrue"
             ELSE IF EtagWeakMatch(sc.etag, etag) THEN "condFalse"
             ELSE ScanIfNoneMatch(sc.remain, etag)

CheckIfNoneMatch(w, r) ==
    IF r.inm = <<>> THEN "condNone" ELSE ScanIfNoneMatch(r.inm, w.hdr.ETag)

IsZeroTime(t) == t = 0

CheckIfModifiedSince(r, modTime) ==
    IF r.method \notin {"GET", "HEAD"} THEN "condNone"
    ELSE IF r.ims = NoDate \/ IsZeroTime(modTime) THEN "condNone"
    ELSE IF ~ParseTime(r.ims).ok THEN "condNone"
    ELSE IF (modTime \div Second) * Second <= ParseTime(r.ims).t THEN "condFalse"
    ELSE "condTrue"

WriteNotModified(w) ==
    LET w1 == [w EXCEPT !.hdr.ContentType = "", !.hdr.ContentLength = -1,
                        !.hdr.LastModified = IF w.hdr.ETag # <<>> THEN NoDate ELSE @]
    IN  WriteHeader(w1, StatusNotModified)

\* http.ServeContent of a seekable, readable file, for a request without
\* If-Match, If-Unmodified-Since and Range.
ServeContent(w, r, modTime, size) ==
    LET w1 == IF IsZeroTime(modTime) THEN w
              ELSE [w EXCEPT !.hdr.LastModified = FormatHTTPTime(modTime)]
        inm == CheckIfNoneMatch(w1, r)
    IN  IF inm = "condFalse"
        THEN (IF r.method \in {"GET", "HEAD"} THEN WriteNotModified(w1)
              ELSE WriteHeader(w1, StatusPreconditionFailed))
        ELSE IF inm = "condNone" /\ CheckIfModifiedSince(r, modTime) = "condFalse"
        THEN WriteNotModified(w1)
        ELSE LET w2 == [w1 EXCEPT !.hdr.ContentType = IF @ = "" THEN "sniffed" ELSE @,
                                  !.hdr.AcceptRanges = "bytes",
                                  !.hdr.ContentLength = size]
                 w3 == WriteHeader(w2, StatusOK)
             IN  IF r.method # "HEAD" THEN Write(w3, "file", size) ELSE w3

----------------------------------------------------------------------------
\* A serveFile that takes a TTL of zero as a TTL to announce.
CachingDisabledBelowZero(ttl) == ttl < 0

\* serveFile: if cacheTTL == 0.
CachingDisabled(ttl) == ttl = 0

\* An ETag made of the modification time at the resolution of the store.
EncodeETagOfTicks(modTime, size) ==
    <<"\"">> \o Hex(modTime) \o <<"-">> \o Hex(size) \o <<"\"">>

\* An ETag written in decimal digits.
EncodeETagDecimal(modTime, size) ==
    <<"\"">> \o Dec(Unix(modTime)) \o <<"-">> \o Dec(size) \o <<"\"">>

\* serveFile: fmt.Sprintf(`"%x-%x"`, info.ModTime().Unix(), info.Size()).
EncodeETag(modTime, size) ==
    <<"\"">> \o Hex(Unix(modTime)) \o <<"-">> \o Hex(size) \o <<"\"">>

\* A tolerance of two seconds on If-Modified-Since.
NotModifiedSinceTwoSeconds(modTime, t) == modTime < t + 2 * Second

\* A tolerance that takes in the file modified exactly one second after the date.
NotModifiedSinceInclusive(modTime, t) == modTime <= t + Second

\* serveFile: info.ModTime().Before(t.Add(1*time.Second)).
NotModifiedSince(modTime, t) == modTime < t + Second

\* A handler that reads If-Modified-Since only when there is no If-None-Match.
IfModifiedSinceWithoutIfNoneMatch(r) == r.ims # NoDate /\ r.inm = <<>>

\* serveFile: if ifModifiedSince != "", whatever If-None-Match held.
IfModifiedSincePresent(r) == r.ims # NoDate

\* serveFile(w, r, file, info, cacheTTL), called when the clock shows clock.
serveFile(w, r, info, ttl, clock) ==
    IF CachingDisabled(ttl) THEN ServeContent(w, r, info.modTime, info.size)
    ELSE
    LET etag == EncodeETag(info.modTime, info.size)
        w1 == [w EXCEPT !.hdr.ETag = etag,
                        !.hdr.LastModified = FormatHTTPTime(info.modTime),
                        !.hdr.CacheControl = <<"public, max-age=">> \o Dec(WholeSeconds(ttl)),
                        !.hdr.Expires = FormatHTTPTime(clock + ttl),
                        !.hdr.Pragma = "cache"]
    IN  IF r.inm # <<>> /\ Contains(r.inm, etag)
        THEN WriteHeader(w1, StatusNotModified)
        ELSE IF /\ IfModifiedSincePresent(r)
                /\ ParseTimeFormat(r.ims).ok
                /\ NotModifiedSince(info.modTime, ParseTimeFormat(r.ims).t)
        THEN WriteHeader(w1, StatusNotModified)
        ELSE ServeContent(w1, r, info.modTime, info.size)

\* The deferred close of the opened file: a failure is handed to http.Error.
DeferredClose(w, r) ==
    IF r.close # "ok" THEN Error(w, r.close, StatusInternalServerError) ELSE w

\* The return statement the handler leaves by: after a failed Open, after a
\* failed Stat, for a directory, or at the end, after serveFile.
ExitPath(r, info) ==
    IF r.open # "ok" THEN "open"
    ELSE IF r.stat # "ok" THEN "stat"
    ELSE IF info.isDir THEN "dir"
    ELSE "serveFile"

\* A handler that closes the file after serveFile instead of deferring it.
CloseRunsAfterServeFileOnly(exit) == exit = "serveFile"

\* The close is deferred right after the successful Open: it runs on every
\* return that comes after it.
CloseRuns(exit) == exit # "open"

\* The calls the handler makes on the store, in their order.
StoreCalls(exit) ==
    <<"Open">>
    \o (IF exit # "open" THEN <<"Stat">> ELSE <<>>)
    \o (IF exit = "serveFile" THEN <<"serveFile">> ELSE <<>>)
    \o (IF CloseRuns(exit) THEN <<"Close">> ELSE <<>>)

\* The handler serveStaticHandlerFunc returns, run on request r whose Open,
\* Stat and Close on the store end as r.open, r.stat and r.close say.
StaticServe(r, prefix, ttl, f, clock) ==
    LET fsPath == TrimPrefix(r.path, prefix)
        w == NewWriter(r.method)
        info == Info(fsPath, f)
        exit == ExitPath(r, info)
        body == IF exit = "serveFile" THEN serveFile(w, r, info, ttl, clock)
                ELSE NotFound(w)
        out == IF CloseRuns(exit) THEN DeferredClose(body, r) ELSE body
        ops == StoreCalls(exit)
    IN  [status |-> out.status, hdr |-> out.sent, body |-> out.body,
         opened |-> r.open = "ok",
         closes |-> Cardinality({i \in 1..Len(ops) : ops[i] = "Close"}),
         ops |-> ops]

\* serveStaticHandlerFunc: the prefix loses its trailing slashes once.
serveStaticHandlerFunc(raw) == TrimRight(raw, {"/"})

----------------------------------------------------------------------------
NoReq ==
    [method |-> "", path |-> <<>>, inm |-> <<>>, ims |-> NoDate,
     open |-> "", stat |-> "", close |-> ""]

NoResp ==
    [status |-> 0, hdr |-> NoHeaders, body |-> <<>>, opened |-> FALSE, closes |-> 0,
     ops |-> <<>>]

NoCache ==
    [has |-> FALSE, etag |-> <<>>, lm |-> NoDate, modTime |-> 0, size |-> 0,
     ttl |-> 0, at |-> 0]

\* The handler as it is when no request has been made: built on "/s/" with
\* caching disabled.
StaticIdle ==
    /\ publicPath = serveStaticHandlerFunc(<<"/", "s", "/">>)
    /\ cacheTTL = 0
    /\ file = [modTime |-> 0, size |-> 0]
    /\ now = 0
    /\ req = NoReq
    /\ resp = NoResp
    /\ cache = NoCache

StaticInit ==
    /\ publicPath \in {serveStaticHandlerFunc(raw) : raw \in RawPrefixes}
    /\ cacheTTL \in TTLs
    /\ file \in [modTime : ModTimes, size : Sizes]
    /\ now = 0
    /\ req = NoReq
    /\ resp = NoResp
    /\ cache = NoCache

\* Header values a client sends: validators it kept, and others.
OtherETag == <<"\"", "f", "f", "-", "f", "f", "\"">>

IfNoneMatchValues ==
    {<<>>, <<"*">>, OtherETag}
    \cup (IF cache.has
          THEN {cache.etag, OtherETag \o <<",", " ", "W", "/">> \o cache.etag}
          ELSE {})

IfModifiedSinceValues ==
    {NoDate, [fmt |-> "garbage", sec |-> 0]}
    \cup [fmt : {"TimeFormat", "RFC850"}, sec : DateSecs]

\* The requests a client may send, each with the way the store answers it.
RequestsFor(url) ==
    LET fsPath == TrimPrefix(url, publicPath) IN
    {[method |-> m, path |-> url, inm |-> i, ims |-> d,
      open |-> "ok", stat |-> st, close |-> cl] :
        m \in Methods, i \in IfNoneMatchValues, d \in IfModifiedSinceValues,
        st \in (IF "ok" \in OpenOutcomes(fsPath) THEN StatOutcomes(fsPath) ELSE {}),
        cl \in FileCloseOutcomes(fsPath)}
    \cup
    {[method |-> m, path |-> url, inm |-> i, ims |-> d,
      open |-> o, stat |-> "", close |-> ""] :
        m \in Methods, i \in IfNoneMatchValues, d \in IfModifiedSinceValues,
        o \in OpenOutcomes(fsPath) \ {"ok"}}

Requests == UNION {RequestsFor(url) : url \in URLs}

\* StaticHandler(publicPath, root, cacheTTL): a handler is built.
NewStaticHandler(raw, ttl) ==
    /\ resp = NoResp
    /\ publicPath' = serveStaticHandlerFunc(raw)
    /\ cacheTTL' = ttl
    /\ <<publicPath', cacheTTL'>> # <<publicPath, cacheTTL>>
    /\ UNCHANGED <<file, now, req, resp, cache>>

\* A request arrives and the handler answers it.
ServeHTTP ==
    /\ resp = NoResp
    /\ \E r \in Requests :
          /\ req' = r
          /\ resp' = StaticServe(r, publicPath, cacheTTL, file, now)
    /\ UNCHANGED <<publicPath, cacheTTL, file, now, cache>>

\* The client takes the response, and keeps the validators of a 200.
ClientReads ==
    /\ resp # NoResp
    /\ cache' = IF resp.status = StatusOK /\ resp.hdr.ETag # <<>>
                THEN [has |-> TRUE, etag |-> resp.hdr.ETag, lm |-> resp.hdr.LastModified,
                      modTime |-> file.modTime, size |-> file.size,
                      ttl |-> cacheTTL, at |-> now]
                ELSE cache
    /\ req' = NoReq
    /\ resp' = NoResp
    /\ UNCHANGED <<publicPath, cacheTTL, file, now>>

\* The file is written to in the store.
Touch(t, z) ==
    /\ resp = NoResp
    /\ [modTime |-> t, size |-> z] # file
    /\ file' = [modTime |-> t, size |-> z]
    /\ UNCHANGED <<publicPath, cacheTTL, now, req, resp, cache>>

\* Time passes.
ClockTick ==
    /\ resp = NoResp
    /\ now < MaxNow
    /\ now' = now + 1
    /\ UNCHANGED <<publicPath, cacheTTL, file, req, resp, cache>>

----------------------------------------------------------------------------
Init ==
    /\ heap = PrebuiltHeap
    /\ newArgs = [addr |-> ":8080", handler |-> "h1", opt |-> <<>>]
    /\ newRes = NoResult
    /\ applied = 0
    /\ LifeInit
    /\ StaticIdle

\* One instance, one Start call on it, and the caller's own Stop and Close.
One == "c1"
Only == "s1"

Next ==
    /\ \/ StartCall(One, Only)
       \/ CancelCtx(One)
       \/ Signal
       \/ LASCheck(One)
       \/ Listen(One)
       \/ Track(One)
       \/ Accept(One)
       \/ ServeExit(One)
       \/ AcceptError(One)
       \/ AcceptReturn(One)
       \/ Finish(Only)
       \/ \E trig \in {"ctx", "signal"} : WatcherTrigger(One, trig)
       \/ StartReturn(One)
       \/ \E t \in UserTimeouts : UserStopCall(Only, t)
       \/ UserCancel
       \/ \E k \in {One, UserStop} : StopDrained(k)
       \/ \E k \in {One, UserStop},
             cause \in {"context.Canceled", "context.DeadlineExceeded"} : StopCtxDone(k, cause)
       \/ \E k \in {One, UserStop} : StopForce(k)
       \/ UserClose(Only)
       \/ Tick
    /\ UNCHANGED consVars
    /\ UNCHANGED staticVars

Spec == Init /\ [][Next]_vars

\* Two Start calls on one address: both on one instance, or one on each of two.
InitTwo ==
    /\ Init
    /\ ~flaky

NextTwo ==
    /\ \/ \E i \in Insts : StartCall("c1", "s1") \/ StartCall("c2", i)
       \/ \E c \in Calls : CancelCtx(c)
       \/ Signal
       \/ \E c \in Calls : LASCheck(c)
       \/ \E c \in Calls : Listen(c)
       \/ \E c \in Calls : Track(c)
       \/ \E c \in Calls : Accept(c)
       \/ \E c \in Calls : ServeExit(c)
       \/ \E c \in Calls : AcceptError(c)
       \/ \E c \in Calls : AcceptReturn(c)
       \/ \E i \in Insts : Finish(i)
       \/ \E c \in Calls, trig \in {"ctx", "signal"} : WatcherTrigger(c, trig)
       \/ \E c \in Calls : StartReturn(c)
       \/ \E k \in Calls : StopDrained(k)
       \/ \E k \in Calls : StopCtxDone(k, "context.DeadlineExceeded")
       \/ \E k \in Calls : StopForce(k)
       \/ Tick
    /\ UNCHANGED consVars
    /\ UNCHANGED staticVars

SpecTwo == InitTwo /\ [][NextTwo]_vars

\* Start called with a context that is already cancelled: one call on a fresh
\* instance, clients that may connect, and no Stop or Close by the caller.
InitCancelled ==
    /\ heap = PrebuiltHeap
    /\ newArgs = [addr |-> ":8080", handler |-> "h1", opt |-> <<>>]
    /\ newRes = NoResult
    /\ applied = 0
    /\ shutdownTimeout \in [Insts -> GraceVals]
    /\ inShutdown = [i \in Insts |-> FALSE]
    /\ listeners = [i \in Insts |-> {}]
    /\ served = [i \in Insts |-> FALSE]
    /\ ln = [c \in Calls |-> "none"]
    /\ active = [i \in Insts |-> 0]
    /\ call = [c \in Calls |-> IdleCall]
    /\ ctxDone = [c \in Calls |-> c = One]
    /\ sigSub = {}
    /\ sigPend = {}
    /\ stop = [k \in StopIds |-> IdleStop]
    /\ uctxDone = FALSE
    /\ closed = [i \in Insts |-> [n |-> 0, errs |-> {}]]
    /\ flaky \in BOOLEAN
    /\ StaticIdle

NextCancelled ==
    /\ \/ StartCall(One, Only)
       \/ Signal
       \/ LASCheck(One)
       \/ Listen(One)
       \/ Track(One)
       \/ Accept(One)
       \/ ServeExit(One)
       \/ AcceptError(One)
       \/ AcceptReturn(One)
       \/ Finish(Only)
       \/ \E trig \in {"ctx", "signal"} : WatcherTrigger(One, trig)
       \/ StartReturn(One)
       \/ StopDrained(One)
       \/ StopCtxDone(One, "context.DeadlineExceeded")
       \/ StopForce(One)
       \/ Tick
    /\ UNCHANGED consVars
    /\ UNCHANGED staticVars

SpecCancelled == InitCancelled /\ [][NextCancelled]_vars

\* New on its own: the caller draws the arguments, no instance is started.
InitNew ==
    /\ ConsInit
    /\ LifeInit
    /\ shutdownTimeout = [i \in Insts |-> MaxGrace]
    /\ ~flaky
    /\ StaticIdle

NextNew == NewCall /\ UNCHANGED lifeVars /\ UNCHANGED staticVars

SpecNew == InitNew /\ [][NextNew]_vars

\* The static handler on its own: handlers are built, requests are answered,
\* the file changes and time passes.
InitStatic ==
    /\ heap = PrebuiltHeap
    /\ newArgs = [addr |-> ":8080", handler |-> "h1", opt |-> <<>>]
    /\ newRes = NoResult
    /\ applied = 0
    /\ LifeInit
    /\ shutdownTimeout = [i \in Insts |-> MaxGrace]
    /\ ~flaky
    /\ StaticInit

NextStatic ==
    /\ \/ \E raw \in RawPrefixes, ttl \in TTLs : NewStaticHandler(raw, ttl)
       \/ ServeHTTP
       \/ ClientReads
       \/ \E t \in ModTimes, z \in Sizes : Touch(t, z)
       \/ ClockTick
    /\ UNCHANGED consVars
    /\ UNCHANGED lifeVars

SpecStatic == InitStatic /\ [][NextStatic]_vars

(***************************************************************************)
(* Claims about construction.                                              *)
(***************************************************************************)
\* The configuration of the instance New returned: its own fields and the
\* fields of the http.Server it points to.
Config(s, h) ==
    [shutdownTimeout |-> s.shutdownTimeout, log |-> s.log, http |-> h[s.httpServer]]

\* Index of the last WithPreconfiguredServer among the first n options, 0 if none.
LastOverride(opt, n) ==
    LET I == {i \in 1..n : opt[i].kind = "WithPreconfiguredServer"}
    IN  IF I = {} THEN 0 ELSE CHOOSE i \in I : \A j \in I : j <= i

\* The http.Server the instance points to once the first n options have run.
PtrAfter(opt, n) ==
    IF LastOverride(opt, n) = 0 THEN OwnPtr ELSE opt[LastOverride(opt, n)].v

\* Value of the last option of the given kind, or dflt when there is none.
LastValue(opt, kind, dflt) ==
    LET I == {i \in 1..Len(opt) : opt[i].kind = kind}
    IN  IF I = {} THEN dflt ELSE opt[CHOOSE i \in I : \A j \in I : j <= i].v

\* Field f of the object the instance ends up with: the last setter of f that
\* wrote to that object, else what the object held before New.
ExpectedField(addr, handler, opt, f) ==
    LET P == PtrAfter(opt, Len(opt))
        J == {j \in 1..Len(opt) :
                 /\ opt[j].kind \in SetterKinds
                 /\ SetterField[opt[j].kind] = f
                 /\ PtrAfter(opt, j) = P}
    IN  IF J # {} THEN opt[CHOOSE j \in J : \A k \in J : k <= j].v
        ELSE IF P = OwnPtr THEN NewHTTPServer(addr, handler)[f]
        ELSE PrebuiltHeap[P][f]

NewReturnedInstance == newRes.ret /\ newRes.err = Nil

\* C4: New returns an instance and no error for a non-empty addr and a non-nil
\* handler, no instance and ErrEmptyAddress for an empty addr, no instance and
\* ErrNilHandler for a non-empty addr with a nil handler; on a failure no
\* option has run and no http.Server object was created or written.
C4_NewValidates ==
    newRes.ret =>
        /\ (newArgs.addr # "" /\ newArgs.handler # Nil)
              => (Len(newRes.s) = 1 /\ newRes.err = Nil)
        /\ newArgs.addr = ""
              => (newRes.s = <<>> /\ newRes.err = "ErrEmptyAddress")
        /\ (newArgs.addr # "" /\ newArgs.handler = Nil)
              => (newRes.s = <<>> /\ newRes.err = "ErrNilHandler")
        /\ newRes.err # Nil => (applied = 0 /\ heap = PrebuiltHeap)

\* A failed New whose option list would have written to a pre-built server.
C4_Witness ==
    /\ newRes.ret
    /\ newRes.err = "ErrNilHandler"
    /\ Len(newArgs.opt) = 2
    /\ newArgs.opt[1].kind = "WithPreconfiguredServer"
    /\ newArgs.opt[2].kind = "WithReadTimeout"

\* C10 as stated: every field holds the value of the last option that touches
\* it, and a pre-built server override replaces the values set by every option
\* before it, so the configuration is that of New run on the options from the
\* last override on.
C10_OverrideReplacesAllEarlier ==
    NewReturnedInstance =>
        LET opt == newArgs.opt
            k == LastOverride(opt, Len(opt))
            r == New(newArgs.addr, newArgs.handler, SubSeq(opt, k, Len(opt)), PrebuiltHeap)
        IN  k > 0 => Config(newRes.s[1], heap) = Config(r.s[1], r.heap)

\* C10 amended: the grace period and the logger hold the value of the last
\* option that sets them (the default otherwise) whatever overrides there are;
\* each field of the underlying server holds the value of the last setter that
\* wrote to the server object finally in use, else the value that object had
\* (the default for the server New allocates).
C10_LastOptionWins ==
    NewReturnedInstance =>
        LET opt == newArgs.opt
            s == newRes.s[1]
        IN  /\ s.shutdownTimeout = LastValue(opt, "WithGracefulShutdown", DefaultShutdownTimeout)
            /\ s.log = LastValue(opt, "WithLogger", "slog.Default")
            /\ s.httpServer = PtrAfter(opt, Len(opt))
            /\ \A f \in ServerFields :
                  heap[s.httpServer][f] = ExpectedField(newArgs.addr, newArgs.handler, opt, f)

\* Two options on one field, then an override after a grace-period option.
C10_Witness ==
    /\ NewReturnedInstance
    /\ Len(newArgs.opt) = 3
    /\ newArgs.opt[1] = [kind |-> "WithGracefulShutdown", v |-> 3]
    /\ newArgs.opt[2] = [kind |-> "WithGracefulShutdown", v |-> 0]
    /\ newArgs.opt[3].kind = "WithPreconfiguredServer"
    /\ newRes.s[1].shutdownTimeout = 0

\* C25: the instance a successful New returns, whatever the options, has a
\* non-empty listen address and a non-nil handler on the server it will
\* start, and they are the address and the handler New was given and checked.
C25_ValidatedAddrAndHandlerKept ==
    NewReturnedInstance =>
        LET srv == heap[newRes.s[1].httpServer] IN
        /\ srv.Addr # ""
        /\ srv.Handler # Nil
        /\ srv.Addr = newArgs.addr
        /\ srv.Handler = newArgs.handler

(***************************************************************************)
(* Claims about the lifecycle.                                             *)
(***************************************************************************)
Returned(c) == call[c].pc = "returned"

\* The accept loop of Start call c ended with ErrServerClosed: the server was
\* not failing when it was stopped.
AcceptLoopClosedCleanly(c) == call[c].acc = "done" /\ ServeResult(call[c].lasErr) = NoErr

\* C1: on ctx.Done() or a signal the watcher of Start calls Stop on its
\* instance with the configured grace period; when the accept loop ended with
\* ErrServerClosed and Shutdown reported the drain (it returned nil), Start
\* returns nil; Start never returns the cancellation as an error.
C1_CancellationIsNotAnError ==
    LET cl == call[One]
        st == stop[One]
    IN  /\ cl.wat \in {"stop", "done"} =>
              /\ cl.trig \in {"ctx", "signal"}
              /\ st.pc # "idle"
              /\ st.inst = cl.inst
              /\ st.timeout = shutdownTimeout[cl.inst]
        /\ (Returned(One) /\ AcceptLoopClosedCleanly(One) /\ st.err = NoErr)
              => cl.res = NoErr
        /\ ~Is(cl.res, "context.Canceled")

\* The caller cancelled while a request was in flight; the request finished
\* within the grace period and Start returned nil.
C1_Witness ==
    /\ Returned(One)
    /\ call[One].trig = "ctx"
    /\ ctxDone[One]
    /\ served[Only]
    /\ stop[One].elapsed > 0
    /\ stop[One].err = NoErr
    /\ call[One].res = NoErr

NoExternalTrigger ==
    \A c \in Calls : ~ctxDone[c] /\ call[c].trig # "signal"

BindAttempted(c) == call[c].acc \in {"track", "serving", "fail", "done"}

\* C3: of two Start calls on one address that are left to themselves (no
\* cancellation, no signal, no accept error), exactly one binds the address
\* and the other fails with the address in use; a call that failed so and has
\* returned returned an error that matches ErrServerStart.
C3_ExactlyOneBinds ==
    /\ Cardinality({c \in Calls : ln[c] = "open"}) <= 1
    /\ (NoExternalTrigger /\ \A c \in Calls : BindAttempted(c) /\ ~Is(call[c].lasErr, "accept error"))
          => \E c \in Calls :
                /\ ln[c] # "none"
                /\ \A d \in Calls \ {c} : ln[d] = "none" /\ Is(call[d].lasErr, "EADDRINUSE")
    /\ \A c \in Calls :
          (Returned(c) /\ Is(call[c].lasErr, "EADDRINUSE") /\ ~ctxDone[c] /\ call[c].trig = "ctx")
             => Is(call[c].res, "ErrServerStart")

\* Two calls on two instances: the second found the address in use and
\* returned ErrServerStart while the first keeps serving.
C3_Witness ==
    /\ NoExternalTrigger
    /\ call["c2"].inst = "s2"
    /\ Returned("c2")
    /\ Is(call["c2"].lasErr, "EADDRINUSE")
    /\ Is(call["c2"].res, "ErrServerStart")
    /\ call["c1"].acc = "serving"
    /\ ln["c1"] = "open"

StopCallsOne == {One, UserStop}

\* C5: a Stop whose Shutdown ran into the timeout with requests in flight
\* returns an error that matches ErrServerStop and not ErrServerForceClose,
\* whatever Close returned, and it has called Close before it returns.
C5_TimeoutIsStopFailure ==
    \A k \in StopCallsOne :
        (stop[k].pc = "done" /\ Is(stop[k].err, "context.DeadlineExceeded")) =>
            /\ Is(stop[k].res, "ErrServerStop")
            /\ ~Is(stop[k].res, "ErrServerForceClose")
            /\ stop[k].forced

\* The caller's Stop timed out with a request in flight and its forced close
\* failed as well.
C5_Witness ==
    /\ stop[UserStop].pc = "done"
    /\ stop[UserStop].timeout > 0
    /\ stop[UserStop].err = {"context.DeadlineExceeded"}
    /\ stop[UserStop].left > 0
    /\ Is(stop[UserStop].forceErr, "ErrServerForceClose")

\* C6: a Stop whose context was cancelled before the requests in flight had
\* drained returns an error that matches ErrServerStop and has called Close.
C6_CancelledStopFails ==
    \A k \in StopCallsOne :
        (stop[k].pc = "done" /\ Is(stop[k].err, "context.Canceled")) =>
            /\ Is(stop[k].res, "ErrServerStop")
            /\ stop[k].forced

\* The lifecycle state of an instance, read off the server it wraps: 0 not
\* started, 1 running, 2 shutting down (requests still in flight), 3 stopped.
Phase(i) ==
    IF ~inShutdown[i] THEN (IF served[i] THEN 1 ELSE 0)
    ELSE (IF active[i] > 0 THEN 2 ELSE 3)

PhaseAfter(i) ==
    IF ~inShutdown'[i] THEN (IF served'[i] THEN 1 ELSE 0)
    ELSE (IF active'[i] > 0 THEN 2 ELSE 3)

C9_StartStopIgnoresCallerCtx ==
    LET st == stop[One] IN
    st.pc \in {"force", "done"} =>
        /\ ~Is(st.err, "context.Canceled")
        /\ st.left > 0 => (st.elapsed >= st.timeout /\ st.timeout = shutdownTimeout[st.inst])

\* The caller's context was cancelled, a request stayed in flight for the
\* whole grace period, and only then did the Stop of Start fail and force-close.
C9_Witness ==
    /\ ctxDone[One]
    /\ call[One].trig = "ctx"
    /\ stop[One].pc = "done"
    /\ stop[One].timeout = MaxGrace
    /\ stop[One].elapsed = MaxGrace
    /\ stop[One].left > 0
    /\ stop[One].forced

\* The grace period of an instance built with the single option WithGracefulShutdown(d).
GraceConfigured(d) ==
    New(":8080", "h1", <<[kind |-> "WithGracefulShutdown", v |-> d]>>,
        PrebuiltHeap).s[1].shutdownTimeout

\* C11: on an instance configured with a grace period of 0 the Stop that Start
\* calls runs with the default grace period of 5 seconds, so that it gives up
\* on requests in flight only when 5 seconds have elapsed.
C11_ZeroGraceMeansDefault ==
    LET st == stop[One] IN
    (st.pc # "idle" /\ shutdownTimeout[st.inst] = GraceConfigured(0)) =>
        /\ st.timeout = DefaultShutdownTimeout
        /\ st.left > 0 => st.elapsed >= DefaultShutdownTimeout

\* C18: Start returns only when its accept goroutine and its watcher have
\* both returned, the Stop the watcher called (with the goroutine Stop
\* spawns) included; once Start has returned nothing it started takes a step.
C18_StartJoinsItsGoroutines ==
    [][Returned(One)' =>
          /\ call'[One].acc = "done"
          /\ call'[One].wat = "done"
          /\ stop'[One].pc \in {"idle", "done"}
          /\ Returned(One) => (call'[One] = call[One] /\ stop'[One] = stop[One])]_vars

\* Start returned after its accept loop had failed with a request in flight
\* and the Stop of its watcher had timed out and force-closed.
C18_Witness ==
    /\ Returned(One)
    /\ call[One].lasErr = {"accept error"}
    /\ stop[One].pc = "done"
    /\ stop[One].forced
    /\ Is(call[One].res, "ErrServerStart")

\* C19: from the moment a Stop has begun the instance accepts no connection;
\* the Stop calls Close only after its Shutdown has returned an error, which
\* for the timeout means that the whole grace period has elapsed; a Stop whose
\* Shutdown returned nil never calls Close.
C19_ShutdownSequenced ==
    [][\A k \in StopCallsOne :
          /\ stop[k].pc # "idle" => active'[stop[k].inst] <= active[stop[k].inst]
          /\ (stop'[k].forced /\ ~stop[k].forced) =>
                /\ stop[k].pc = "force"
                /\ stop[k].err # NoErr
                /\ Is(stop[k].err, "context.DeadlineExceeded") =>
                      stop[k].elapsed >= stop[k].timeout
          /\ (stop'[k].pc = "done" /\ stop'[k].err = NoErr) => ~stop'[k].forced]_vars

\* A signal started the Stop; a request stayed in flight for the whole grace
\* period, and only then was the server force-closed.
C19_Witness ==
    /\ call[One].trig = "signal"
    /\ stop[One].pc = "done"
    /\ stop[One].forced
    /\ stop[One].err = {"context.DeadlineExceeded"}
    /\ stop[One].elapsed = MaxGrace
    /\ stop[One].left > 0
    /\ active[Only] = 0

\* The accept loop of Start call c ended with an error that is not
\* ErrServerClosed.
AcceptLoopFailed(c) ==
    /\ call[c].acc = "done"
    /\ call[c].lasErr # NoErr
    /\ ~Is(call[c].lasErr, "ErrServerClosed")

\* C20: when the accept loop has ended with an error other than
\* ErrServerClosed the context of the group is cancelled, which makes the
\* watcher stop the server without cancellation by the caller and without a
\* signal, and Start then returns an error that matches ErrServerStart and
\* the error of the accept loop; Start returns some error whenever the accept
\* loop failed, and never one that matches ErrServerClosed.
C20_AcceptErrorIsStartFailure ==
    \A c \in Calls :
        /\ AcceptLoopFailed(c) => call[c].gctx
        /\ (Returned(c) /\ AcceptLoopFailed(c) /\ ~ctxDone[c] /\ call[c].trig # "signal") =>
              /\ call[c].trig = "ctx"
              /\ Is(call[c].res, "ErrServerStart")
              /\ \A e \in call[c].lasErr : Is(call[c].res, e)
        /\ (Returned(c) /\ AcceptLoopFailed(c)) => call[c].res # NoErr
        /\ Returned(c) => ~Is(call[c].res, "ErrServerClosed")
        /\ (Returned(c) /\ call[c].lasErr = {"ErrServerClosed"} /\ stop[c].res = NoErr)
              => call[c].res = NoErr

\* The second Start on a serving instance found the address in use; its
\* watcher stopped the instance without cancellation or signal and it returned.
C20_Witness ==
    /\ Returned("c2")
    /\ call["c2"].inst = "s1"
    /\ call["c2"].lasErr = {"EADDRINUSE"}
    /\ ~ctxDone["c2"]
    /\ call["c2"].trig = "ctx"
    /\ call["c2"].res = {"ErrServerStart", "EADDRINUSE"}
    /\ stop["c2"].pc = "done"

\* C24: once a Start call has returned, whatever its outcome, the signal
\* subscription it created for interrupt and terminate is no longer registered.
C24_SignalUnsubscribed ==
    \A c \in Calls : Returned(c) => c \notin sigSub

\* C26: a Start called with a context that is already cancelled returns nil
\* in every interleaving of its accept goroutine and its watcher, when no
\* networking error struck and the requests that were accepted in between had
\* drained when Shutdown looked (Shutdown returned nil); from its return on no
\* listener of the instance is open, and once the Stop of the watcher is done
\* an accept loop that is still serving has a closed listener.
C26_CancelledStartStops ==
    /\ ctxDone[One]
    /\ Returned(One) =>
          /\ inShutdown[Only]
          /\ \A c \in Calls : call[c].inst = Only => ln[c] # "open"
          /\ \A d \in listeners[Only] : ln[d] # "open"
          /\ (AcceptLoopClosedCleanly(One) /\ stop[One].err = NoErr)
                => call[One].res = NoErr
          /\ active[Only] = 0
    /\ (stop[One].pc = "done" /\ call[One].acc \in {"serving", "done"})
          => ln[One] # "open"

\* The accept goroutine passed the shutdown check, the watcher stopped the
\* server, and the accept goroutine then bound the address: Serve refused the
\* listener and closed it, and Start returned nil without having served.
C26_Witness ==
    /\ ctxDone[One]
    /\ Returned(One)
    /\ call[One].trig = "ctx"
    /\ call[One].res = NoErr
    /\ ln[One] = "closed"
    /\ ~served[Only]
    /\ call[One].lasErr = {"ErrServerClosed"}

\* The accept loop of the Start call has ended in this step.
AcceptLoopEnded == call[One].acc \notin {"fail", "done"} /\ call'[One].acc \in {"fail", "done"}

\* C27: a Stop or Close the caller makes itself on the instance never moves
\* the Start call; on a server that is shut down the accept loop ends with
\* ErrServerClosed, which is no error for the group; the watcher leaves its
\* select only when the context of the group is done or a signal has arrived,
\* so a Start whose accept loop ended with ErrServerClosed returns only after
\* the caller cancelled the context or a signal came, and it returns nil
\* when the Shutdown of its own Stop returned nil.
C27_StartOutlivesCallersStop ==
    [][/\ stop'[UserStop] # stop[UserStop] => call' = call
       /\ (inShutdown[Only] /\ AcceptLoopEnded) =>
             /\ call'[One].lasErr = {"ErrServerClosed"}
             /\ call'[One].acc = "done"
             /\ call'[One].gerr = call[One].gerr
             /\ call'[One].gctx = call[One].gctx
       /\ (call[One].wat = "select" /\ call'[One].wat # "select") =>
             (GroupCtxDone(One) \/ One \in sigPend)
       /\ (Returned(One)' /\ call'[One].lasErr = {"ErrServerClosed"}) =>
             /\ call'[One].wat = "done"
             /\ ctxDone'[One] \/ call'[One].trig = "signal"
             /\ stop'[One].err = NoErr => call'[One].res = NoErr]_vars

\* The caller stopped the instance while Start was serving: the accept loop
\* has ended with ErrServerClosed and the Stop has returned, and Start is
\* still waiting in its watcher, with no cancellation and no signal so far.
C27_Witness ==
    /\ call[One].pc = "running"
    /\ served[Only]
    /\ stop[UserStop].pc = "done"
    /\ stop[UserStop].res = NoErr
    /\ call[One].acc = "done"
    /\ call[One].lasErr = {"ErrServerClosed"}
    /\ call[One].wat = "select"
    /\ stop[One].pc = "idle"
    /\ ~ctxDone[One]
    /\ One \notin sigPend

\* C28: on an instance that was stopped or closed before the accept
\* goroutine of Start began, Start binds nothing, serves nothing and hands no
\* error of the accept loop to its group: ListenAndServe ends with
\* ErrServerClosed; a Start that has bound nothing returns only after the
\* caller cancelled the context or a signal came, and it returns nil.
C28_StartOnStoppedInstance ==
    [][/\ (inShutdown[Only] /\ call[One].acc \in {"idle", "check"}) =>
             /\ ln'[One] = "none"
             /\ ~served'[Only]
             /\ active'[Only] = 0
             /\ call'[One].acc \in {"idle", "check", "done"}
             /\ call'[One].acc = "done" =>
                   /\ call'[One].lasErr = {"ErrServerClosed"}
                   /\ call'[One].gerr = call[One].gerr
                   /\ call'[One].pc = "running"
       /\ (Returned(One)' /\ ln'[One] = "none") =>
             /\ inShutdown[Only]
             /\ call'[One].lasErr = {"ErrServerClosed"}
             /\ call'[One].wat = "done"
             /\ ctxDone'[One] \/ call'[One].trig = "signal"
             /\ call'[One].res = NoErr]_vars

\* Close was called on the instance before Start; Start bound nothing,
\* waited for the cancellation and returned nil.
C28_Witness ==
    /\ closed[Only].n > 0
    /\ Returned(One)
    /\ ln[One] = "none"
    /\ ~served[Only]
    /\ call[One].lasErr = {"ErrServerClosed"}
    /\ call[One].trig = "ctx"
    /\ ctxDone[One]
    /\ call[One].res = NoErr

(***************************************************************************)
(* Claims about the static content handler.                                *)
(***************************************************************************)
Responded == resp # NoResp

\* The request reached serveFile: the path was opened, its metadata read, and
\* it is the regular file.
ServedFile ==
    /\ Responded
    /\ req.open = "ok"
    /\ req.stat = "ok"
    /\ TrimPrefix(req.path, publicPath) = FilePath

\* The file is as it was when the client kept its validators.
CacheFresh == cache.has /\ cache.modTime = file.modTime /\ cache.size = file.size

\* The whole file as the body of a response to the request.
FullBody == IF req.method = "GET" /\ file.size > 0 THEN <<"file">> ELSE <<>>

OneSecondBefore(date) == [date EXCEPT !.sec = @ - 1]

\* C12: with a cache TTL > 0, a request for the regular file without
\* conditional headers gets 200 with an ETag, a Last-Modified and the full
\* body; with the file unchanged since, a request with that ETag in
\* If-None-Match gets 304 and no body, one with that Last-Modified in
\* If-Modified-Since gets 304, and one with the date one second before it in
\* If-Modified-Since gets 200 and the full body.
C12_ConditionalRoundTrip ==
    (ServedFile /\ cacheTTL > 0) =>
        /\ (req.inm = <<>> /\ req.ims = NoDate) =>
              /\ resp.status = StatusOK
              /\ resp.hdr.ETag # <<>>
              /\ resp.hdr.LastModified.fmt = "TimeFormat"
              /\ resp.body = FullBody
        /\ CacheFresh =>
              /\ (req.inm = <<>> /\ req.ims = NoDate) =>
                    (resp.hdr.ETag = cache.etag /\ resp.hdr.LastModified = cache.lm)
              /\ (req.inm = cache.etag /\ req.ims = NoDate) =>
                    (resp.status = StatusNotModified /\ resp.body = <<>>)
              /\ (req.inm = <<>> /\ req.ims = cache.lm) =>
                    resp.status = StatusNotModified
              /\ (req.inm = <<>> /\ req.ims = OneSecondBefore(cache.lm)) =>
                    (resp.status = StatusOK /\ resp.body = FullBody)

\* The client asks again with the date one second before the Last-Modified it
\* kept, for a file modified between two whole seconds, and gets the body.
C12_Witness ==
    /\ ServedFile
    /\ cacheTTL > 0
    /\ CacheFresh
    /\ file.modTime % Second # 0
    /\ file.size > 0
    /\ req.method = "GET"
    /\ req.inm = <<>>
    /\ req.ims = OneSecondBefore(cache.lm)
    /\ resp.status = StatusOK
    /\ resp.body = <<"file">>

\* What http.NotFound sends on a fresh response.
NotFoundResponse(method) ==
    LET w == NotFound(NewWriter(method))
    IN  [status |-> w.status, hdr |-> w.sent, body |-> w.body]

\* The path could not be opened, or its metadata could not be read, or it is
\* a directory.
NotFoundCause ==
    \/ req.open # "ok"
    \/ req.stat # "ok"
    \/ TrimPrefix(req.path, publicPath) = DirPath

\* C13: a request whose path cannot be opened (whatever the error), whose
\* metadata cannot be read, or which names a directory is answered 404, with
\* one and the same response whichever of these happened, and without any
\* byte of a file, for any cache TTL.
C13_UniformNotFound ==
    (Responded /\ NotFoundCause) =>
        /\ resp.status = StatusNotFound
        /\ \A i \in 1..Len(resp.body) : resp.body[i] # "file"
        /\ [status |-> resp.status, hdr |-> resp.hdr, body |-> resp.body]
              = NotFoundResponse(req.method)

\* C14: with a cache TTL of zero no response carries an ETag, a Cache-Control
\* or an Expires header, whatever the request and whatever came before it.
C14_NoCachingHeadersAtZeroTTL ==
    (Responded /\ cacheTTL = 0) =>
        /\ resp.hdr.ETag = <<>>
        /\ resp.hdr.CacheControl = <<>>
        /\ resp.hdr.Expires = NoDate

\* A handler without caching answers a client that sends the validators it
\* got from a handler with caching.
C14_Witness ==
    /\ ServedFile
    /\ cacheTTL = 0
    /\ CacheFresh
    /\ req.inm = cache.etag
    /\ req.ims = cache.lm
    /\ resp.status = StatusOK
    /\ resp.hdr.LastModified # NoDate

\* C15: a response carries the ETag an earlier response carried whenever the
\* modification time in whole seconds and the size of the file are the same,
\* whatever the clock, the request headers and the cache TTL (> 0) were.
C15_ETagOfMetadataOnly ==
    (/\ ServedFile
     /\ resp.hdr.ETag # <<>>
     /\ cache.has
     /\ cache.modTime \div Second = file.modTime \div Second
     /\ cache.size = file.size)
        => resp.hdr.ETag = cache.etag

\* Same second and size, but another tick of the store's clock, another time
\* of the request, another TTL and a conditional request.
C15_Witness ==
    /\ ServedFile
    /\ resp.hdr.ETag = cache.etag
    /\ cache.has
    /\ cache.modTime # file.modTime
    /\ cache.size = file.size
    /\ cache.at # now
    /\ cache.ttl # cacheTTL
    /\ req.ims # NoDate
    /\ resp.status = StatusNotModified

\* The number a string of lower-case hexadecimal (decimal) digits writes.
DigitValue(d) == (CHOOSE i \in 1..16 : HexDigits[i] = d) - 1

RECURSIVE DigitsValue(_, _)
DigitsValue(ds, base) ==
    IF ds = <<>> THEN 0
    ELSE DigitsValue(SubSeq(ds, 1, Len(ds) - 1), base) * base + DigitValue(ds[Len(ds)])

IsNumeral(ds, base) ==
    /\ ds # <<>>
    /\ \A i \in 1..Len(ds) : \E k \in 1..base : HexDigits[k] = ds[i]
    /\ Len(ds) > 1 => ds[1] # "0"

\* e is the quoted pair hex(a)-hex(b).
IsQuotedHexPair(e, a, b) ==
    /\ Len(e) >= 5
    /\ e[1] = "\""
    /\ e[Len(e)] = "\""
    /\ \E i \in 3..(Len(e) - 2) :
          /\ e[i] = "-"
          /\ IsNumeral(SubSeq(e, 2, i - 1), 16)
          /\ IsNumeral(SubSeq(e, i + 1, Len(e) - 1), 16)
          /\ DigitsValue(SubSeq(e, 2, i - 1), 16) = a
          /\ DigitsValue(SubSeq(e, i + 1, Len(e) - 1), 16) = b

\* v is "public, max-age=" followed by n in decimal.
IsPublicMaxAge(v, n) ==
    /\ Len(v) >= 2
    /\ v[1] = "public, max-age="
    /\ IsNumeral(Tail(v), 10)
    /\ DigitsValue(Tail(v), 10) = n

\* C16: with a cache TTL > 0 every response of serveFile is a 200 or a 304
\* and carries as ETag the quoted pair hex(modification time in epoch
\* seconds)-hex(size), and as Cache-Control "public, max-age=" with the TTL in
\* whole seconds: max-age=600 for a TTL of 600 s.
C16_ValidatorFormat ==
    (ServedFile /\ cacheTTL > 0) =>
        /\ resp.status \in {StatusOK, StatusNotModified}
        /\ IsQuotedHexPair(resp.hdr.ETag, file.modTime \div Second, file.size)
        /\ IsPublicMaxAge(resp.hdr.CacheControl, cacheTTL \div Second)
        /\ cacheTTL = 600 * Second =>
              resp.hdr.CacheControl = <<"public, max-age=", "6", "0", "0">>

\* A 304 for a file of 26 bytes modified in second 1, with a TTL of 600 s.
C16_Witness ==
    /\ ServedFile
    /\ cacheTTL = 600 * Second
    /\ file.size = 26
    /\ file.modTime \div Second = 1
    /\ resp.status = StatusNotModified
    /\ resp.hdr.ETag = <<"\"", "1", "-", "1", "a", "\"">>
    /\ resp.hdr.CacheControl = <<"public, max-age=", "6", "0", "0">>

\* No If-None-Match header, or one that names another ETag only.
NoMatchingIfNoneMatch == req.inm \in {<<>>, OtherETag}

ComputedETag == EncodeETag(file.modTime, file.size)

\* The If-Modified-Since of the request is a date in http.TimeFormat and the
\* file was modified strictly before one second after it.
IfModifiedSinceHolds ==
    /\ req.ims.fmt = "TimeFormat"
    /\ file.modTime < req.ims.sec * Second + Second

ExitTaken ==
    IF req.open # "ok" THEN "open"
    ELSE IF req.stat # "ok" THEN "stat"
    ELSE IF TrimPrefix(req.path, publicPath) = DirPath THEN "dir"
    ELSE IF resp.status = StatusNotModified THEN "304"
    ELSE IF cacheTTL = 0 THEN "uncached"
    ELSE "full"

\* C22: a file the handler opened is closed exactly once, by the last call
\* the handler makes on the store before it returns, on every exit path
\* (failed Stat, directory, 304, full body, serving without caching) and
\* whether or not the Close succeeds; nothing is closed when Open failed.
C22_ClosedExactlyOnce ==
    Responded =>
        /\ resp.opened <=> req.open = "ok"
        /\ resp.ops[1] = "Open"
        /\ resp.opened =>
              /\ resp.closes = 1
              /\ resp.ops[Len(resp.ops)] = "Close"
              /\ ExitTaken \in {"stat", "dir", "304", "uncached", "full"}
        /\ ~resp.opened => (resp.closes = 0 /\ resp.ops = <<"Open">>)

\* The metadata of the opened file could not be read, and closing it failed
\* as well: the Close was still made, once.
C22_Witness ==
    /\ Responded
    /\ req.open = "ok"
    /\ req.stat = "EIO"
    /\ req.close = "EIO"
    /\ ExitTaken = "stat"
    /\ resp.ops = <<"Open", "Stat", "Close">>
    /\ resp.status = StatusNotFound

\* What the client gets for the request when closing the file succeeds.
ResponseWithCloseOK ==
    LET r == StaticServe([req EXCEPT !.close = "ok"], publicPath, cacheTTL, file, now)
    IN  [status |-> r.status, hdr |-> r.hdr, body |-> r.body]

\* C23: when closing the opened file fails, the response is already committed
\* (200, 304 or 404) and the failure is swallowed: the client gets the status,
\* the headers and the bytes it gets when the close succeeds, and the status
\* is 404, 304 or 200.
C23_CloseFailureSwallowed ==
    (Responded /\ resp.opened /\ req.close # "ok") =>
        /\ resp.status \in {StatusNotFound, StatusNotModified, StatusOK}
        /\ [status |-> resp.status, hdr |-> resp.hdr, body |-> resp.body]
              = ResponseWithCloseOK

====
